---- MODULE Spec2Model ----
(***************************************************************************)
(* A model of the behavior_tree crate (src/src/lib.rs).                    *)
(*                                                                         *)
(* A tree is a nested record, exactly as the Rust values nest: a composite *)
(* holds the array of its tasks, a Once holds its boxed node, a Wait holds *)
(* its duration and its optional start.  Node::tick is the recursive       *)
(* operator Tick; beside the Status it returns the node as the call left   *)
(* it (the &mut self), the trace slot as the call left it (the &mut debug) *)
(* and the sequence of Node::tick calls it made, in call order.            *)
(*                                                                         *)
(* Time is counted in clock units; UnitsPerMilli of them make one          *)
(* millisecond (the crate compares Durations at full resolution and        *)
(* prints them with as_millis).                                            *)
(***************************************************************************)
EXTENDS Integers, Sequences, FiniteSets, TLC

VARIABLES
    root,         \* the tree the driver holds
    now,          \* the monotonic clock read by Instant::now()
    depth0,       \* the depth the driver passes to root
    debug,        \* the driver's trace slot, as the last tick left it
    last,         \* the driver's last call on root and what it returned
    invocations   \* per node (by path), the number of Node::tick calls so far

vars == <<root, now, depth0, debug, last, invocations>>

----------------------------------------------------------------------------
\* Bounds of the model.

MaxKids == 3          \* most tasks of a composite
MaxDuration == 2      \* longest Wait duration, in clock units
MaxTime == 2          \* the clock stops advancing here
MaxTicks == 3         \* ticks of root in one behaviour
MaxDepth == 1         \* the depth of a driver that does not pass 0
MaxTrace == 2         \* a trace longer than this is not reused
UnitsPerMilli == 2    \* clock units per millisecond

----------------------------------------------------------------------------
\* enum Status, by discriminant.

Success == 0
Failure == 1
Running == 2
Status == {Success, Failure, Running}

\* #[derive(Debug)] on Status: the variant's name.
DebugStatus(status) ==
    CASE status = Success -> "Success"
      [] status = Failure -> "Failure"
      [] status = Running -> "Running"

\* Option<T>: None is the empty sequence, Some(x) the one-element sequence.
None == <<>>
Some(x) == <<x>>

\* Display of an unsigned integer: its decimal digits.
Digit(d) ==
    CASE d = 0 -> "0" [] d = 1 -> "1" [] d = 2 -> "2" [] d = 3 -> "3"
      [] d = 4 -> "4" [] d = 5 -> "5" [] d = 6 -> "6" [] d = 7 -> "7"
      [] d = 8 -> "8" [] d = 9 -> "9"

RECURSIVE FormatNat(_)
FormatNat(n) ==
    IF n < 10 THEN Digit(n) ELSE FormatNat(n \div 10) \o Digit(n % 10)

\* Duration::as_millis: whole milliseconds, truncated.
AsMillis(d) == d \div UnitsPerMilli

\* Instant::elapsed on a monotonic clock.
Elapsed(start, clock) == IF clock >= start THEN clock - start ELSE 0

----------------------------------------------------------------------------
\* Constructors.

AlwaysSuccess == [kind |-> "AlwaysSuccess"]
AlwaysFailure == [kind |-> "AlwaysFailure"]
AlwaysRunning == [kind |-> "AlwaysRunning"]

\* The leaves the tests define, Success(number) and Fail(number).
TestSuccessNew(number) == [kind |-> "test::Success", number |-> number]
TestFailNew(number) == [kind |-> "test::Fail", number |-> number]

WaitNew(duration) == [kind |-> "Wait", duration |-> duration, start |-> None]

OnceNew(node) == [kind |-> "Once", done |-> None, node |-> node]

RefSelectorNew(name, tasks) ==
    [kind |-> "referenced::Selector", name |-> name, tasks |-> tasks]
RefSequenceNew(name, tasks) ==
    [kind |-> "referenced::Sequence", name |-> name, tasks |-> tasks]
BoxedSelectorNew(name, tasks) ==
    [kind |-> "boxed::Selector", name |-> name, tasks |-> tasks]
BoxedSequenceNew(name, tasks) ==
    [kind |-> "boxed::Sequence", name |-> name, tasks |-> tasks]

SelectorKinds == {"referenced::Selector", "boxed::Selector"}
SequenceKinds == {"referenced::Sequence", "boxed::Sequence"}
CompositeKinds == SelectorKinds \cup SequenceKinds
BoxedKinds == {"boxed::Selector", "boxed::Sequence"}

CompositeNew(kind, name, tasks) ==
    CASE kind = "referenced::Selector" -> RefSelectorNew(name, tasks)
      [] kind = "referenced::Sequence" -> RefSequenceNew(name, tasks)
      [] kind = "boxed::Selector" -> BoxedSelectorNew(name, tasks)
      [] kind = "boxed::Sequence" -> BoxedSequenceNew(name, tasks)

----------------------------------------------------------------------------
\* Node::name.

WaitName(node, clock) ==
    LET duration == AsMillis(node.duration)
    IN  IF node.start # None
        THEN LET elapsed == AsMillis(Elapsed(node.start[1], clock))
             IN  "wait " \o FormatNat(IF duration > elapsed
                                      THEN duration - elapsed ELSE 0)
        ELSE "wait " \o FormatNat(duration)

OnceName(node) ==
    IF node.done # None
    THEN "once cached " \o DebugStatus(node.done[1])
    ELSE "once"

Name(node, clock) ==
    CASE node.kind \in CompositeKinds -> node.name
      [] node.kind = "AlwaysSuccess" -> "always-success"
      [] node.kind = "AlwaysFailure" -> "always-failure"
      [] node.kind = "AlwaysRunning" -> "always-running"
      [] node.kind = "Wait" -> WaitName(node, clock)
      [] node.kind = "Once" -> OnceName(node)
      [] OTHER -> "none"

\* Node::reset: no type of the crate overrides the trait's default, an empty body.
Reset(node) == node

----------------------------------------------------------------------------
\* Node::tick.

\* The match on a task's Status in each composite: Some(s) returns s from the
\* tick, None goes on to the next task.
\* A Selector that goes on after a Success.
RefSelectorMatchKeepsGoing(status) ==
    CASE status = Success -> None
      [] status = Failure -> None
      [] status = Running -> Some(Running)

RefSelectorMatch(status) ==
    CASE status = Success -> Some(Success)
      [] status = Failure -> None
      [] status = Running -> Some(Running)

\* A Sequence that goes on after a Failure.
RefSequenceMatchKeepsGoing(status) ==
    CASE status = Success -> None
      [] status = Failure -> None
      [] status = Running -> Some(Running)

RefSequenceMatch(status) ==
    CASE status = Success -> None
      [] status = Failure -> Some(Failure)
      [] status = Running -> Some(Running)

BoxedSelectorMatch(status) ==
    CASE status = Success -> Some(Success)
      [] status = Failure -> None
      [] status = Running -> Some(Running)

\* A Sequence that goes on to the next task while one is Running.
BoxedSequenceMatchRunsOn(status) ==
    CASE status = Success -> None
      [] status = Failure -> Some(Failure)
      [] status = Running -> None

\* A Sequence that goes on to the next task after a Failure.
BoxedSequenceMatchPastFailure(status) ==
    CASE status = Success -> None
      [] status = Failure -> None
      [] status = Running -> Some(Running)

BoxedSequenceMatch(status) ==
    CASE status = Success -> None
      [] status = Failure -> Some(Failure)
      [] status = Running -> Some(Running)

Match(kind, status) ==
    CASE kind = "referenced::Selector" -> RefSelectorMatch(status)
      [] kind = "referenced::Sequence" -> RefSequenceMatch(status)
      [] kind = "boxed::Selector" -> BoxedSelectorMatch(status)
      [] kind = "boxed::Sequence" -> BoxedSequenceMatch(status)

\* The Status after the loop over the tasks ran to its end.
RefSelectorEnd == Failure
RefSequenceEnd == Success
\* A Selector that succeeds when nothing is left to try.
BoxedSelectorEndSucceeds == Success
BoxedSelectorEnd == Failure
BoxedSequenceEnd == Success

Exhausted(kind) ==
    CASE kind = "referenced::Selector" -> RefSelectorEnd
      [] kind = "referenced::Sequence" -> RefSequenceEnd
      [] kind = "boxed::Selector" -> BoxedSelectorEnd
      [] kind = "boxed::Sequence" -> BoxedSequenceEnd

\* The depth a composite passes to its tasks.
RefTaskDepth(depth) == depth
BoxedTaskDepth(depth) == depth + 1

TaskDepth(kind, depth) ==
    IF kind \in BoxedKinds THEN BoxedTaskDepth(depth) ELSE RefTaskDepth(depth)

\* A push that drops what the trace held.
PushOverwrites(slot, depth, node, clock) ==
    IF slot = None THEN None
    ELSE Some(<< <<depth, Name(node, clock)>> >>)

\* if let Some(ref mut debug) = debug { debug.push((depth, self.name())) }
Push(slot, depth, node, clock) ==
    IF slot = None THEN None
    ELSE Some(Append(slot[1], <<depth, Name(node, clock)>>))

\* The trace slot after a composite's own entry: the boxed composites push one,
\* the referenced ones have no such statement.
RefPush(slot, depth, node, clock) == slot
BoxedPush(slot, depth, node, clock) == Push(slot, depth, node, clock)

CompositePush(slot, depth, node, clock) ==
    IF node.kind \in BoxedKinds THEN BoxedPush(slot, depth, node, clock)
    ELSE RefPush(slot, depth, node, clock)

\* A Wait that takes a new start on every tick.
WaitStartAgain(start, clock) == Some(clock)

\* A Wait that is over only after more than its duration.
WaitStatusLate(start, duration, clock) ==
    IF start = None THEN Running
    ELSE IF Elapsed(start[1], clock) > duration THEN Success ELSE Running

\* A Wait that is over only at the instant its duration has passed.
WaitStatusExact(start, duration, clock) ==
    IF start = None THEN Running
    ELSE IF Elapsed(start[1], clock) = duration THEN Success ELSE Running

\* A Wait of no duration that is over on the tick that starts it.
WaitStatusAtOnce(start, duration, clock) ==
    IF start = None THEN (IF duration = 0 THEN Success ELSE Running)
    ELSE IF Elapsed(start[1], clock) >= duration THEN Success ELSE Running

\* Wait::tick's match on self.start.
WaitStart(start, clock) == IF start = None THEN Some(clock) ELSE start

WaitStatus(start, duration, clock) ==
    IF start = None THEN Running
    ELSE IF Elapsed(start[1], clock) >= duration THEN Success ELSE Running

\* Once::tick's if let Some(status) = self.done: whether the cache answers.
OnceCachedNever(done) == FALSE
OnceCached(done) == done # None

\* A Once that caches whatever its node returned.
OnceDoneAlways(done, status) == Some(status)

\* Once::tick's match on the node's Status: what self.done becomes.
OnceDone(done, status) == IF status = Running THEN done ELSE Some(status)

\* The one element of a singleton. The({e(r) : r \in {x}}) is e(x): what a
\* call returns is bound once, as by the match on it, and read from there.
The(S) == CHOOSE x \in S : TRUE

RECURSIVE Tick(_, _, _, _, _)
RECURSIVE TickTasks(_, _, _, _, _, _, _)

\* for task in self.tasks.iter_mut() { match task.tick(..) {..} }, from task i on.
TickTasks(kind, tasks, i, depth, slot, clock, path) ==
    IF i > Len(tasks)
    THEN [status |-> Exhausted(kind), tasks |-> tasks, debug |-> slot,
          calls |-> <<>>]
    ELSE The({
           LET ticked == [tasks EXCEPT ![i] = r.node]
               m == Match(kind, r.status)
           IN  IF m # None
               THEN [status |-> m[1], tasks |-> ticked, debug |-> r.debug,
                     calls |-> r.calls]
               ELSE The({[rest EXCEPT !.calls = r.calls \o rest.calls] :
                         rest \in {TickTasks(kind, ticked, i + 1, depth, r.debug,
                                             clock, path)}})
           : r \in {Tick(tasks[i], depth, slot, clock, path \o <<i>>)}})

CompositeTick(node, depth, slot, clock, path) ==
    The({[status |-> r.status, node |-> [node EXCEPT !.tasks = r.tasks],
          debug |-> r.debug, calls |-> r.calls] :
         r \in {TickTasks(node.kind, node.tasks, 1, TaskDepth(node.kind, depth),
                          CompositePush(slot, depth, node, clock), clock, path)}})

AlwaysTick(node, depth, slot, clock, status) ==
    [status |-> status, node |-> node, debug |-> Push(slot, depth, node, clock),
     calls |-> <<>>]

\* The leaves of the tests: they print their number and leave the trace alone.
TestTick(node, depth, slot, clock, status) ==
    [status |-> status, node |-> node, debug |-> slot, calls |-> <<>>]

\* WaitTick, if the start were captured only while tracing.
WaitTickOnlyTraced(node, depth, slot, clock) ==
    [status |-> WaitStatus(node.start, node.duration, clock),
     node |-> IF slot = None THEN node
              ELSE [node EXCEPT !.start = WaitStart(node.start, clock)],
     debug |-> Push(slot, depth, node, clock),
     calls |-> <<>>]

WaitTick(node, depth, slot, clock) ==
    [status |-> WaitStatus(node.start, node.duration, clock),
     node |-> [node EXCEPT !.start = WaitStart(node.start, clock)],
     debug |-> Push(slot, depth, node, clock),
     calls |-> <<>>]

\* A Once that ticks as OnceTick does but records the name it has after the tick.
OnceTickNamesAfter(node, depth, slot, clock, path) ==
    LET under == Tick(node.node, depth + 1, None, clock, path \o <<1>>).status
        after == IF OnceCached(node.done) THEN node
                 ELSE [node EXCEPT !.done = OnceDone(node.done, under)]
        pushed == Push(slot, depth, after, clock)
    IN  IF OnceCached(node.done)
        THEN [status |-> node.done[1], node |-> node, debug |-> pushed,
              calls |-> <<>>]
        ELSE LET r == Tick(node.node, depth + 1, pushed, clock, path \o <<1>>)
             IN  [status |-> r.status,
                  node |-> [node EXCEPT !.node = r.node,
                                        !.done = OnceDone(node.done, r.status)],
                  debug |-> r.debug, calls |-> r.calls]

OnceTick(node, depth, slot, clock, path) ==
    LET pushed == Push(slot, depth, node, clock)
    IN  IF OnceCached(node.done)
        THEN [status |-> node.done[1], node |-> node, debug |-> pushed,
              calls |-> <<>>]
        ELSE The({[status |-> r.status,
                   node |-> [node EXCEPT !.node = r.node,
                                         !.done = OnceDone(node.done, r.status)],
                   debug |-> r.debug, calls |-> r.calls] :
                  r \in {Tick(node.node, depth + 1, pushed, clock, path \o <<1>>)}})

\* The dynamic dispatch of Node::tick; the call itself heads the calls it made.
Tick(node, depth, slot, clock, path) ==
    The({[r EXCEPT !.calls = <<[path |-> path, status |-> r.status,
                               depth |-> depth]>> \o r.calls] :
         r \in {
             CASE node.kind \in CompositeKinds ->
                      CompositeTick(node, depth, slot, clock, path)
               [] node.kind = "AlwaysSuccess" ->
                      AlwaysTick(node, depth, slot, clock, Success)
               [] node.kind = "AlwaysFailure" ->
                      AlwaysTick(node, depth, slot, clock, Failure)
               [] node.kind = "AlwaysRunning" ->
                      AlwaysTick(node, depth, slot, clock, Running)
               [] node.kind = "Wait" -> WaitTick(node, depth, slot, clock)
               [] node.kind = "Once" -> OnceTick(node, depth, slot, clock, path)
               [] node.kind = "test::Success" ->
                      TestTick(node, depth, slot, clock, Success)
               [] node.kind = "test::Fail" ->
                      TestTick(node, depth, slot, clock, Failure)}})

----------------------------------------------------------------------------
\* The tree as a set of paths: a task is its index in tasks, a Once's node is 1.

RECURSIVE Paths(_, _)
Paths(node, path) ==
    {path} \cup
    (CASE node.kind \in CompositeKinds ->
              UNION {Paths(node.tasks[i], path \o <<i>>) : i \in 1..Len(node.tasks)}
       [] node.kind = "Once" -> Paths(node.node, path \o <<1>>)
       [] OTHER -> {})

RECURSIVE NodeAt(_, _)
NodeAt(node, path) ==
    IF path = <<>> THEN node
    ELSE IF node.kind = "Once" THEN NodeAt(node.node, Tail(path))
    ELSE NodeAt(node.tasks[Head(path)], Tail(path))

----------------------------------------------------------------------------
\* The driver.

NoCall == [op |-> "none", pre |-> <<>>, slot |-> None, status |-> None,
           calls |-> <<>>]

\* A driver that has just built tree and will pass depth to its ticks.
Built(tree, depth) ==
    /\ root = tree
    /\ now = 0
    /\ depth0 = depth
    /\ debug = None
    /\ last = NoCall
    /\ invocations = [p \in Paths(tree, <<>>) |-> 0]

Count(calls, path) == Cardinality({i \in 1..Len(calls) : calls[i].path = path})

\* root.tick(depth0, &mut debug), dt clock units after the driver's last call;
\* the slot is absent, a fresh empty trace, or the slot of the last tick reused.
TickRoot ==
    \E dt \in 0..(MaxTime - now), slot \in {"absent", "fresh", "reuse"} :
      /\ invocations[<<>>] < MaxTicks
      /\ slot = "reuse" => (debug # None /\ Len(debug[1]) <= MaxTrace)
      /\ LET given == CASE slot = "absent" -> None
                        [] slot = "fresh" -> Some(<<>>)
                        [] slot = "reuse" -> debug
             r == Tick(root, depth0, given, now + dt, <<>>)
         IN  /\ root' = r.node
             /\ now' = now + dt
             /\ debug' = r.debug
             /\ last' = [op |-> "tick", pre |-> root, slot |-> given,
                         status |-> Some(r.status), calls |-> r.calls]
             /\ invocations' = [p \in DOMAIN invocations |->
                                  invocations[p] + Count(r.calls, p)]
      /\ UNCHANGED depth0

\* root.reset()
ResetRoot ==
    /\ root' = Reset(root)
    /\ last' = [NoCall EXCEPT !.op = "reset", !.pre = root]
    /\ UNCHANGED <<now, depth0, debug, invocations>>

Next == TickRoot \/ ResetRoot

\* A driver that never stops ticking. Its clock has no bound: an Instant is
\* read only through elapsed(), so when the clock would pass MaxTime every
\* start that was captured moves back with it, and a start that is MaxTime or
\* more in the past stays that far in the past.
RECURSIVE Earlier(_)
Earlier(node) ==
    CASE node.kind \in CompositeKinds ->
           [node EXCEPT !.tasks = [i \in 1..Len(node.tasks) |-> Earlier(node.tasks[i])]]
      [] node.kind = "Once" -> [node EXCEPT !.node = Earlier(node.node)]
      [] node.kind = "Wait" ->
           IF node.start = None THEN node
           ELSE [node EXCEPT !.start = Some(IF node.start[1] > 0
                                            THEN node.start[1] - 1 ELSE 0)]
      [] OTHER -> node

\* root.tick(depth0, &mut debug), dt clock units after the driver's last tick,
\* with no trace or a fresh one; the counts of calls stop at MaxTicks.
TickAfter(dt) ==
    \E slot \in {"absent", "fresh"} :
      \E tree \in {IF now + dt > MaxTime THEN Earlier(root) ELSE root} :
        LET clock == IF now + dt > MaxTime THEN MaxTime ELSE now + dt
            given == IF slot = "absent" THEN None ELSE Some(<<>>)
        IN  \E r \in {Tick(tree, depth0, given, clock, <<>>)} :
              /\ root' = r.node
              /\ now' = clock
              /\ debug' = r.debug
              /\ last' = [op |-> "tick", pre |-> tree, slot |-> given,
                          status |-> Some(r.status), calls |-> r.calls]
              /\ invocations' =
                   [p \in DOMAIN invocations |->
                      IF invocations[p] + Count(r.calls, p) > MaxTicks
                      THEN MaxTicks
                      ELSE invocations[p] + Count(r.calls, p)]
              /\ UNCHANGED depth0

TickLive == \E dt \in 0..1 : TickAfter(dt)

----------------------------------------------------------------------------
\* The trees a driver may build.

StatelessLeaves == <<AlwaysSuccess, AlwaysFailure, AlwaysRunning>>

Waits == [d \in 1..(MaxDuration + 1) |-> WaitNew(d - 1)]

Leaves == StatelessLeaves \o Waits

\* The stateless leaves, a Wait of no duration and the longest Wait.
Mixed == StatelessLeaves \o <<WaitNew(0), WaitNew(MaxDuration)>>

Tasks(from, f) == [j \in DOMAIN f |-> from[f[j]]]

Depths == {0, MaxDepth}

\* Composites of every kind: any tasks that are stateless leaves, and any two
\* tasks of Mixed.
InitComposite ==
    \E kind \in CompositeKinds, depth \in Depths :
      \/ \E n \in 0..MaxKids :
           \E f \in [1..n -> 1..Len(StatelessLeaves)] :
             Built(CompositeNew(kind, "root", Tasks(StatelessLeaves, f)), depth)
      \/ \E f \in [1..2 -> 1..Len(Mixed)] :
           /\ \E j \in 1..2 : f[j] > Len(StatelessLeaves)
           /\ Built(CompositeNew(kind, "root", Tasks(Mixed, f)), depth)

SpecComposite == InitComposite /\ [][Next]_vars

\* A Once over a leaf, a Once over a composite of two tasks, and composites of
\* a Once and another task.
InitOnce ==
    \E depth \in Depths :
      \/ \E i \in 1..Len(Leaves) : Built(OnceNew(Leaves[i]), depth)
      \/ \E kind \in CompositeKinds :
           \E f \in [1..2 -> 1..(Len(StatelessLeaves) + 1)] :
             \/ Built(OnceNew(CompositeNew(kind, "root", Tasks(Leaves, f))), depth)
             \/ Built(CompositeNew(kind, "root",
                                   <<OnceNew(Leaves[f[1]]), Leaves[f[2]]>>), depth)

SpecOnce == InitOnce /\ [][Next]_vars

\* A Wait, and composites of two Waits.
InitWait ==
    \E depth \in Depths :
      \/ \E i \in 1..Len(Waits) : Built(Waits[i], depth)
      \/ \E kind \in CompositeKinds :
           \E f \in [1..2 -> 1..Len(Waits)] :
             Built(CompositeNew(kind, "root", Tasks(Waits, f)), depth)

SpecWait == InitWait /\ [][Next]_vars

\* The leaves of the tests' trees, for the leaf numbered n: the tests' own
\* Success(n) and Fail(n), and the library's leaves that never run.
NestLeaves(n) == <<TestSuccessNew(n), TestFailNew(n), AlwaysSuccess, AlwaysFailure>>

\* The name the tests give the inner composite: the referenced test calls both
\* composites "root", the boxed test calls the inner one "nested".
NestedName(kind) == IF kind \in BoxedKinds THEN "nested" ELSE "root"

\* The trees of the tests named composite: a composite over a composite of the
\* same variant with leaves 1 and 2, and leaf 3, to be ticked at depth 0.
InitNested ==
    \E outer \in CompositeKinds, inner \in CompositeKinds, depth \in {0} :
      \E f \in [1..3 -> 1..Len(NestLeaves(1))] :
        /\ (outer \in BoxedKinds) = (inner \in BoxedKinds)
        /\ Built(CompositeNew(outer, "root",
                  <<CompositeNew(inner, NestedName(inner),
                                 <<NestLeaves(1)[f[1]], NestLeaves(2)[f[2]]>>),
                    NestLeaves(3)[f[3]]>>), depth)

SpecNested == InitNested /\ [][Next]_vars

\* A Sequence of either variant over one to MaxKids Waits, each of no duration
\* or of the longest.
ShortAndLong == <<WaitNew(0), WaitNew(MaxDuration)>>

InitWaitSequence ==
    \E kind \in SequenceKinds, depth \in Depths, n \in 1..MaxKids :
      \E f \in [1..n -> 1..Len(ShortAndLong)] :
        Built(CompositeNew(kind, "root", Tasks(ShortAndLong, f)), depth)

SpecWaitSequence == InitWaitSequence /\ [][Next]_vars

\* Trees of boxed composites, Once, Wait, AlwaysSuccess and AlwaysFailure: a
\* task on its own, a boxed composite of two tasks, a Once over a boxed
\* composite of two leaves.
LiveLeaves == <<AlwaysSuccess, AlwaysFailure, WaitNew(0), WaitNew(MaxDuration)>>

LiveTasks ==
    LiveLeaves \o
    <<OnceNew(WaitNew(MaxDuration)),
      OnceNew(AlwaysFailure),
      BoxedSequenceNew("nested", <<WaitNew(MaxDuration), WaitNew(1)>>),
      BoxedSelectorNew("nested", <<AlwaysFailure, WaitNew(MaxDuration)>>)>>

InitLive ==
    \E depth \in Depths :
      \/ \E i \in 1..Len(LiveTasks) : Built(LiveTasks[i], depth)
      \/ \E kind \in BoxedKinds :
           \/ \E f \in [1..2 -> 1..Len(LiveTasks)] :
                Built(CompositeNew(kind, "root", Tasks(LiveTasks, f)), depth)
           \/ \E f \in [1..2 -> 1..Len(LiveLeaves)] :
                Built(OnceNew(CompositeNew(kind, "root", Tasks(LiveLeaves, f))),
                      depth)

\* The driver keeps ticking and its clock keeps advancing.
SpecLive == InitLive /\ [][TickLive]_vars /\ WF_vars(TickAfter(1))

\* A leaf on its own.
InitLeaf ==
    \E depth \in Depths, i \in 1..Len(Leaves) : Built(Leaves[i], depth)

SpecLeaf == InitLeaf /\ [][Next]_vars

Init ==
    \/ InitComposite
    \/ InitOnce
    \/ InitWait
    \/ InitNested
    \/ InitWaitSequence
    \/ InitLive
    \/ InitLeaf

Spec == Init /\ [][Next]_vars

----------------------------------------------------------------------------
\* What the last tick did, read off last.

Ticked == last.op = "tick"

\* The node a call of the last tick was made on, as it was before the tick.
Callee(call) == NodeAt(last.pre, call.path)

\* The calls a call made on its own tasks (or node), in call order.
IsPrefix(p, q) == Len(p) <= Len(q) /\ SubSeq(q, 1, Len(p)) = p
PathAndStatus(calls) ==
    [k \in 1..Len(calls) |-> [path |-> calls[k].path, status |-> calls[k].status]]
KidCalls(calls, path) ==
    PathAndStatus(SelectSeq(calls, LAMBDA c : /\ Len(c.path) = Len(path) + 1
                                              /\ IsPrefix(path, c.path)))

\* What task j of the composite at path returns when ticked at the clock of the
\* last tick, from the state it had before that tick.
TaskReturns(path, j) ==
    Tick(NodeAt(last.pre, path \o <<j>>), 0, None, now, path \o <<j>>).status

\* Calls on tasks 1..i of the composite at path, each once and in order.
CallsUpTo(path, i) ==
    [j \in 1..i |-> [path |-> path \o <<j>>, status |-> TaskReturns(path, j)]]

\* C1: a ticked Selector (either variant) whose first i-1 tasks return Failure
\* and whose task i returns Success returns Success, having ticked exactly
\* tasks 1..i, each once and in order; if all tasks return Failure it returns
\* Failure, having ticked them all.
C1_SelectorFirstSuccess ==
    Ticked =>
      \A k \in 1..Len(last.calls) :
        LET call == last.calls[k]
            node == Callee(call)
            kids == KidCalls(last.calls, call.path)
        IN  node.kind \in SelectorKinds =>
              LET n == Len(node.tasks)
              IN  /\ \A i \in 1..n :
                       (/\ TaskReturns(call.path, i) = Success
                        /\ \A j \in 1..(i - 1) : TaskReturns(call.path, j) = Failure)
                       => /\ call.status = Success
                          /\ kids = CallsUpTo(call.path, i)
                  /\ (\A j \in 1..n : TaskReturns(call.path, j) = Failure)
                       => /\ call.status = Failure
                          /\ kids = CallsUpTo(call.path, n)

\* A Selector of three tasks was ticked: the first failed, the second succeeded,
\* the third was not ticked.
C1_Witness ==
    /\ Ticked
    /\ root.kind \in SelectorKinds
    /\ Len(root.tasks) = 3
    /\ TaskReturns(<<>>, 1) = Failure
    /\ TaskReturns(<<>>, 2) = Success
    /\ last.status = Some(Success)
    /\ Len(last.calls) = 3

\* C2: a ticked Sequence (either variant) whose first i-1 tasks return Success
\* and whose task i returns Failure returns Failure, having ticked exactly
\* tasks 1..i, each once and in order; if all tasks return Success it returns
\* Success, having ticked them all.
C2_SequenceFirstFailure ==
    Ticked =>
      \A k \in 1..Len(last.calls) :
        LET call == last.calls[k]
            node == Callee(call)
            kids == KidCalls(last.calls, call.path)
        IN  node.kind \in SequenceKinds =>
              LET n == Len(node.tasks)
              IN  /\ \A i \in 1..n :
                       (/\ TaskReturns(call.path, i) = Failure
                        /\ \A j \in 1..(i - 1) : TaskReturns(call.path, j) = Success)
                       => /\ call.status = Failure
                          /\ kids = CallsUpTo(call.path, i)
                  /\ (\A j \in 1..n : TaskReturns(call.path, j) = Success)
                       => /\ call.status = Success
                          /\ kids = CallsUpTo(call.path, n)

\* A Sequence of three tasks was ticked: the first succeeded, the second failed,
\* the third was not ticked.
C2_Witness ==
    /\ Ticked
    /\ root.kind \in SequenceKinds
    /\ Len(root.tasks) = 3
    /\ TaskReturns(<<>>, 1) = Success
    /\ TaskReturns(<<>>, 2) = Failure
    /\ last.status = Some(Failure)
    /\ Len(last.calls) = 3

\* C3: a ticked Selector without tasks returns Failure and a ticked Sequence
\* without tasks returns Success, in either variant, at any depth, with the
\* trace slot present or absent.
C3_NoTasks ==
    Ticked =>
      \A k \in 1..Len(last.calls) :
        LET call == last.calls[k]
            node == Callee(call)
        IN  (node.kind \in CompositeKinds /\ Len(node.tasks) = 0) =>
              /\ node.kind \in SelectorKinds => call.status = Failure
              /\ node.kind \in SequenceKinds => call.status = Success

\* A boxed Selector without tasks was ticked at a depth other than 0 with a
\* trace slot present.
C3_Witness ==
    /\ Ticked
    /\ root.kind = "boxed::Selector"
    /\ Len(root.tasks) = 0
    /\ depth0 = MaxDepth
    /\ last.slot # None
    /\ last.status = Some(Failure)

\* The Status on which a composite goes on to its next task.
GoesOn(kind) == IF kind \in SelectorKinds THEN Failure ELSE Success

\* The last tick of the composite root stopped at task k, which returned Running.
StoppedAtRunning(k) ==
    /\ Ticked
    /\ root.kind \in CompositeKinds
    /\ LET kids == KidCalls(last.calls, <<>>)
       IN  /\ Len(kids) = k
           /\ kids[k].status = Running

\* The last tick of the composite root ticked its tasks from the first one on,
\* in order, going on exactly over those that returned GoesOn.
FromTheFirst ==
    LET kids == KidCalls(last.calls, <<>>)
        n == Len(root.tasks)
    IN  /\ Len(kids) <= n
        /\ n > 0 => Len(kids) > 0
        /\ \A j \in 1..Len(kids) : kids[j].path = <<j>>
        /\ \A j \in 1..(Len(kids) - 1) : kids[j].status = GoesOn(root.kind)
        /\ Len(kids) < n => kids[Len(kids)].status # GoesOn(root.kind)

\* C4: a composite keeps no index between ticks.  When a tick stops at task k
\* on Running, the composite returns Running and ticks no task after k; the
\* tick that follows starts again at the first task and goes on in order, so it
\* ticks every task before k again as long as none of them short-circuits, and
\* then task k.
C4_NoIndexMemory ==
    [][\A k \in 1..MaxKids :
         StoppedAtRunning(k) =>
           /\ last.status = Some(Running)
           /\ (last'.op = "tick" =>
                 /\ FromTheFirst'
                 /\ LET kids == KidCalls(last'.calls, <<>>)
                    IN  (\A j \in 1..Len(kids) :
                           j < k => kids[j].status = GoesOn(root.kind))
                        => Len(kids) >= k)]_vars

\* A Sequence [AlwaysSuccess, Wait] was ticked for the second time while its
\* Wait was started: the first tick stopped at the Wait, and both tasks were
\* ticked again.
C4_Witness ==
    /\ Ticked
    /\ root.kind \in SequenceKinds
    /\ Len(root.tasks) = 2
    /\ root.tasks[1].kind = "AlwaysSuccess"
    /\ root.tasks[2].kind = "Wait"
    /\ last.pre.tasks[2].start # None
    /\ invocations[<<1>>] = 2
    /\ invocations[<<2>>] = 2

----------------------------------------------------------------------------
\* Once.

\* The paths of root's nodes of a kind.
PathsOf(kind) == {p \in DOMAIN invocations : NodeAt(root, p).kind = kind}

\* Calls of the last tick made on a node of a kind.
CallsOn(kind) == {k \in 1..Len(last.calls) : Callee(last.calls[k]).kind = kind}

\* C5: a tick of a Once whose cache is populated returns the cached Status, does
\* not tick the node under it and leaves the cache as it was; so a Once over a
\* node that returned Failure on its first tick has ticked that node once,
\* however often the Once is ticked after that, and returns Failure each time.
C5_CachedOnce ==
    /\ [][last'.op = "tick" =>
            \A p \in PathsOf("Once") :
              LET before == NodeAt(root, p)
              IN  (before.done # None /\ invocations'[p] # invocations[p]) =>
                    /\ invocations'[p \o <<1>>] = invocations[p \o <<1>>]
                    /\ NodeAt(root', p) = before
                    /\ \A k \in 1..Len(last'.calls) :
                         last'.calls[k].path = p =>
                           last'.calls[k].status = before.done[1]]_vars
    /\ [](\A p \in PathsOf("Once") :
            LET once == NodeAt(root, p)
            IN  (once.node.kind = "AlwaysFailure" /\ invocations[p] >= 1) =>
                  /\ once.done = Some(Failure)
                  /\ invocations[p \o <<1>>] = 1)

\* A Once over AlwaysFailure was ticked three times: its node was ticked once
\* and the last tick returned Failure.
C5_Witness ==
    /\ Ticked
    /\ root.kind = "Once"
    /\ root.node.kind = "AlwaysFailure"
    /\ invocations[<<>>] = 3
    /\ invocations[<<1>>] = 1
    /\ last.pre.done = Some(Failure)
    /\ last.status = Some(Failure)

\* C6: a tick of a Once whose cache is empty ticks the node under it exactly
\* once and returns what that node returned; the cache stays empty if that was
\* Running and holds that Status otherwise.  The cache of a Once is always
\* empty, Success or Failure.
C6_UncachedOnce ==
    /\ Ticked =>
         \A k \in CallsOn("Once") :
           LET call == last.calls[k]
               kids == KidCalls(last.calls, call.path)
           IN  Callee(call).done = None =>
                 /\ Len(kids) = 1
                 /\ kids[1].path = call.path \o <<1>>
                 /\ kids[1].status = call.status
                 /\ TaskReturns(call.path, 1) = call.status
                 /\ NodeAt(root, call.path).done =
                      IF call.status = Running THEN None ELSE Some(call.status)
    /\ \A p \in PathsOf("Once") :
         NodeAt(root, p).done \in {None, Some(Success), Some(Failure)}

\* A Once over a Wait was ticked while the Wait was running and its cache was
\* empty, the Wait returned Success and the Once cached it.
C6_Witness ==
    /\ Ticked
    /\ root.kind = "Once"
    /\ root.node.kind = "Wait"
    /\ last.pre.done = None
    /\ last.pre.node.start # None
    /\ last.status = Some(Success)
    /\ root.done = Some(Success)
    /\ invocations[<<1>>] >= 2

\* C7: reset on a Once empties its cache, and the tick that follows a reset of
\* a Once that had cached Success ticks the node under it once more.
C7_ResetOnce ==
    [][/\ (last'.op = "reset" /\ root.kind = "Once") => root'.done = None
       /\ (/\ last.op = "reset"
           /\ last.pre.kind = "Once"
           /\ last.pre.done = Some(Success)
           /\ last'.op = "tick")
          => invocations'[<<1>>] = invocations[<<1>>] + 1]_vars

----------------------------------------------------------------------------
\* Wait.

\* C8: the first tick of a Wait returns Running, whatever its duration; a later
\* tick returns Success if the time elapsed since the start taken by the first
\* tick is at least the duration, and Running otherwise.
C8_WaitStatus ==
    /\ \A p \in PathsOf("Wait") :
         (invocations[p] = 0) <=> (NodeAt(root, p).start = None)
    /\ Ticked =>
         \A k \in CallsOn("Wait") :
           LET call == last.calls[k]
               wait == Callee(call)
           IN  /\ wait.start = None => call.status = Running
               /\ wait.start # None =>
                    call.status = IF now - wait.start[1] >= wait.duration
                                  THEN Success ELSE Running

\* A Wait of the longest duration returned Success on a tick made exactly that
\* long after its first tick.
C8_Witness ==
    /\ Ticked
    /\ root.kind = "Wait"
    /\ root.duration = MaxDuration
    /\ root.start # None
    /\ now - root.start[1] = root.duration
    /\ invocations[<<>>] >= 2
    /\ last.status = Some(Success)

\* C9: the start of a Wait is absent until its first tick, that tick sets it
\* to the clock it read, and no later tick changes it; the name of a started
\* Wait counts down from that one start.
C9_WaitStart ==
    /\ \A p \in PathsOf("Wait") :
         invocations[p] = 0 => NodeAt(root, p).start = None
    /\ Ticked =>
         \A k \in CallsOn("Wait") :
           LET call == last.calls[k]
               before == Callee(call)
               after == NodeAt(root, call.path)
               left == AsMillis(after.duration) - AsMillis(now - after.start[1])
           IN  /\ before.start = None => after.start = Some(now)
               /\ before.start # None => after.start = before.start
               /\ after.duration = before.duration
               /\ Name(after, now) =
                    "wait " \o FormatNat(IF left > 0 THEN left ELSE 0)

\* A started Wait was ticked again at a later clock and kept its start.
C9_Witness ==
    /\ Ticked
    /\ root.kind = "Wait"
    /\ last.pre.start # None
    /\ root.start = last.pre.start
    /\ now > root.start[1]
    /\ invocations[<<>>] = 3

\* C10: after reset a Wait is as a Wait just built with its duration: its start
\* is absent and its name reports the whole duration.
C10_ResetWait ==
    (last.op = "reset" /\ root.kind = "Wait") =>
      /\ root = WaitNew(root.duration)
      /\ Name(root, now) = "wait " \o FormatNat(AsMillis(root.duration))


----------------------------------------------------------------------------
\* The trace of the last tick.

\* The entries the last tick appended to the trace it was given.
Appended ==
    IF last.slot = None \/ debug = None THEN <<>>
    ELSE SubSeq(debug[1], Len(last.slot[1]) + 1, Len(debug[1]))

\* What the node of a call appends when ticked on its own with an empty trace,
\* at the depth, clock and state of that call.
OwnTrace(call) ==
    Tick(Callee(call), call.depth, Some(<<>>), now, call.path).debug[1]

\* The entry a node ticked at the depth of the call owes the trace.
OwnEntry(call) == <<call.depth, Name(Callee(call), now)>>

IsLeafKind(kind) == kind \in {"AlwaysSuccess", "AlwaysFailure", "AlwaysRunning", "Wait"}

\* C11: with a trace slot present, every composite (referenced or boxed) and
\* every Once ticked at depth d appends its own (d, name) pair before any entry
\* of a child and ticks its children at depth d + 1; every leaf ticked at depth
\* d appends exactly one pair, (d, name).
C11_OwnEntryFirst ==
    (Ticked /\ last.slot # None) =>
      \A k \in 1..Len(last.calls) :
        LET call == last.calls[k]
            node == Callee(call)
            own == OwnTrace(call)
        IN  /\ Len(own) >= 1
            /\ own[1] = OwnEntry(call)
            /\ IsLeafKind(node.kind) => Len(own) = 1
            /\ \A j \in 1..Len(last.calls) :
                 (/\ Len(last.calls[j].path) = Len(call.path) + 1
                  /\ IsPrefix(call.path, last.calls[j].path))
                 => last.calls[j].depth = call.depth + 1

\* The paths of the last tick's calls.
TickedPaths == {last.calls[k].path : k \in 1..Len(last.calls)}

\* The pre-order walk of the ticked nodes of the tree under node: the node
\* first, then the walk of each of its subtrees in turn.
RECURSIVE PreOrder(_, _)
RECURSIVE PreOrderTasks(_, _, _)
PreOrderTasks(tasks, i, path) ==
    IF i > Len(tasks) THEN <<>>
    ELSE PreOrder(tasks[i], path \o <<i>>) \o PreOrderTasks(tasks, i + 1, path)
PreOrder(node, path) ==
    IF path \notin TickedPaths THEN <<>>
    ELSE <<path>> \o
         (CASE node.kind \in CompositeKinds -> PreOrderTasks(node.tasks, 1, path)
            [] node.kind = "Once" -> PreOrder(node.node, path \o <<1>>)
            [] OTHER -> <<>>)

\* C12: with a trace slot present, the entries a tick appends are the pre-order
\* walk of the nodes ticked in that invocation, one entry per ticked node and
\* none for a node that was skipped (by a short-circuit, or under a Once whose
\* cache is populated).
C12_PreOrderTrace ==
    (Ticked /\ last.slot # None) =>
      LET walk == PreOrder(last.pre, <<>>)
      IN  /\ Len(Appended) = Len(walk)
          /\ \A k \in 1..Len(walk) :
               Appended[k][2] = Name(NodeAt(last.pre, walk[k]), now)

\* A Sequence (either variant) named "root" over two Waits that have not started.
FreshWaitPair(node) ==
    /\ node.kind \in SequenceKinds
    /\ node.name = "root"
    /\ Len(node.tasks) = 2
    /\ \A i \in 1..2 : node.tasks[i].kind = "Wait" /\ node.tasks[i].start = None

\* C13: one tick at depth 0 with an empty trace of a Sequence named "root" over
\* two fresh Waits leaves the trace [(0, "root"), (1, name of the first Wait)]
\* and returns Running; the second Wait is not ticked and its start stays absent.
C13_RootOfTwoWaits ==
    (/\ Ticked
     /\ FreshWaitPair(last.pre)
     /\ depth0 = 0
     /\ last.slot = Some(<<>>)) =>
      /\ debug = Some(<< <<0, "root">>, <<1, Name(last.pre.tasks[1], now)>> >>)
      /\ last.status = Some(Running)
      /\ \A k \in 1..Len(last.calls) : last.calls[k].path # <<2>>
      /\ root.tasks[2].start = None

\* The last tick again, from the same tree in the same state at the same clock,
\* with a trace slot if the last tick had none and without if it had one.
OtherSlot == IF last.slot = None THEN Some(<<>>) ELSE None
Untraced == Tick(last.pre, depth0, OtherSlot, now, <<>>)

\* C14: a tick with a trace slot and a tick of an identical tree without one
\* return the same Status, make the same calls and leave the same node state
\* (Wait starts, Once caches); an absent slot is still absent after the tick.
C14_TracingIsInert ==
    Ticked =>
      /\ Untraced.status = last.status[1]
      /\ Untraced.node = root
      /\ PathAndStatus(Untraced.calls) = PathAndStatus(last.calls)
      /\ last.slot = None => debug = None
      /\ OtherSlot = None => Untraced.debug = None

\* A traced tick that started a Wait, or filled the cache of a Once over one.
C14_Witness ==
    /\ Ticked
    /\ last.slot # None
    /\ last.pre.kind = "Once"
    /\ last.pre.node.kind = "Wait"
    /\ root # last.pre
    /\ Untraced.node = root
    /\ debug # None

----------------------------------------------------------------------------
\* Nesting.

AlwaysSucceeds(node) == node.kind \in {"test::Success", "AlwaysSuccess"}
AlwaysFails(node) == node.kind \in {"test::Fail", "AlwaysFailure"}

\* A Sequence over a Sequence of the same variant with an always-Success and an
\* always-Failure leaf, and a trailing always-Failure leaf.
NestedSequences(node) ==
    /\ node.kind \in SequenceKinds
    /\ Len(node.tasks) = 2
    /\ node.tasks[1].kind = node.kind
    /\ Len(node.tasks[1].tasks) = 2
    /\ AlwaysSucceeds(node.tasks[1].tasks[1])
    /\ AlwaysFails(node.tasks[1].tasks[2])
    /\ AlwaysFails(node.tasks[2])

\* C15: in both variants, a Sequence over an inner Sequence of [always-Success,
\* always-Failure] and a trailing always-Failure leaf returns Failure, having
\* ticked the inner Sequence and its two leaves in order and nothing else: the
\* trailing leaf is never ticked.
C15_NestedShortCircuit ==
    (Ticked /\ NestedSequences(last.pre)) =>
      /\ last.status = Some(Failure)
      /\ PathAndStatus(last.calls) =
           << [path |-> <<>>, status |-> Failure],
              [path |-> <<1>>, status |-> Failure],
              [path |-> <<1, 1>>, status |-> Success],
              [path |-> <<1, 2>>, status |-> Failure] >>
      /\ invocations[<<2>>] = 0

\* The boxed test's tree, ticked MaxTicks times.
C15_Witness ==
    /\ Ticked
    /\ NestedSequences(last.pre)
    /\ last.pre.kind = "boxed::Sequence"
    /\ last.pre.tasks[1].tasks[1].kind = "test::Success"
    /\ last.pre.tasks[2].kind = "test::Fail"
    /\ invocations[<<1, 2>>] = MaxTicks
    /\ last.status = Some(Failure)

----------------------------------------------------------------------------
\* Leaves after a terminal result.

Terminal == {Success, Failure}

\* C16: a leaf that returned a terminal result returns the same result on the
\* next tick (no reset in between), whatever the clock has advanced to;
\* AlwaysSuccess and AlwaysFailure return their fixed value on every tick; and
\* a Wait that is over at the present clock is over at every later clock, so
\* it never returns Running again.
C16_TerminalStays ==
    /\ [][(/\ Ticked
           /\ last'.op = "tick"
           /\ IsLeafKind(root.kind)
           /\ last.status[1] \in Terminal)
          => last'.status = last.status]_vars
    /\ [](Ticked =>
            /\ root.kind = "AlwaysSuccess" => last.status = Some(Success)
            /\ root.kind = "AlwaysFailure" => last.status = Some(Failure)
            /\ (root.kind = "Wait" /\ last.status = Some(Success)) =>
                 \A clock \in now..(MaxTime + 1) :
                   /\ WaitTick(root, depth0, None, clock).status = Success
                   /\ WaitTick(root, depth0, None, clock).node = root)

\* Two ticks in a row of the longest Wait that share a trace, both made when
\* the Wait was over: both entries read "wait 0" and both ticks return Success.
C16_Witness ==
    /\ Ticked
    /\ root = [WaitNew(MaxDuration) EXCEPT !.start = Some(0)]
    /\ last.pre = root
    /\ last.status = Some(Success)
    /\ last.slot # None
    /\ Len(last.slot[1]) >= 1
    /\ last.slot[1][Len(last.slot[1])] = <<depth0, "wait 0">>
    /\ debug = Some(Append(last.slot[1], <<depth0, "wait 0">>))

----------------------------------------------------------------------------
\* The trace across ticks.

\* The trace the last tick leaves when it is given an empty one.
TraceOfTick == Tick(last.pre, depth0, Some(<<>>), now, <<>>).debug[1]

\* C17: the trace is append-only: whatever the trace held before a tick is an
\* unchanged prefix of the trace after it, and what follows the prefix is the
\* trace that tick produces on its own, so ticks sharing one trace leave the
\* concatenation of their traces.
C17_AppendOnly ==
    (Ticked /\ last.slot # None) =>
      /\ debug # None
      /\ IsPrefix(last.slot[1], debug[1])
      /\ debug[1] = last.slot[1] \o TraceOfTick

\* A tick appended several entries to a trace that held some already.
C17_Witness ==
    /\ Ticked
    /\ last.slot # None
    /\ Len(last.slot[1]) >= 2
    /\ Len(TraceOfTick) >= 2
    /\ debug = Some(last.slot[1] \o TraceOfTick)

----------------------------------------------------------------------------
\* The name of a Once.

\* Whether a ticked node of this kind appends an entry of its own.
Pushes(kind) == kind \in BoxedKinds \cup {"Once"} \/ IsLeafKind(kind)

\* The place among the appended entries of the entry of call k of the last
\* tick: the number of calls up to it that append one.
EntryOf(k) == Cardinality({j \in 1..k : Pushes(Callee(last.calls[j]).kind)})

\* C18: a Once is named "once" exactly when its cache is empty and
\* "once cached Success" or "once cached Failure", after the cached status,
\* exactly when it is populated; the entry a tick appends for a Once carries the
\* name the Once had when the tick began, so the tick that populates the cache
\* records "once".
C18_OnceName ==
    /\ \A p \in PathsOf("Once") :
         LET once == NodeAt(root, p)
         IN  /\ once.done \in {None, Some(Success), Some(Failure)}
             /\ (Name(once, now) = "once") = (once.done = None)
             /\ \A status \in Terminal :
                  (Name(once, now) = "once cached " \o DebugStatus(status))
                    = (once.done = Some(status))
    /\ (Ticked /\ last.slot # None) =>
         \A k \in CallsOn("Once") :
           LET before == Callee(last.calls[k])
           IN  /\ EntryOf(k) \in 1..Len(Appended)
               /\ Appended[EntryOf(k)][2] = Name(before, now)
               /\ before.done = None => Appended[EntryOf(k)][2] = "once"

\* A traced tick populated the cache of a Once: the entry reads "once", the
\* name is now "once cached Failure".
C18_Witness ==
    /\ Ticked
    /\ last.slot # None
    /\ root.kind = "Once"
    /\ last.pre.done = None
    /\ root.done = Some(Failure)
    /\ Appended[1] = <<depth0, "once">>
    /\ Name(root, now) = "once cached Failure"

----------------------------------------------------------------------------
\* Waits under a Sequence.

\* The tasks of root whose start the last tick captured.
StartedNow ==
    {k \in 1..Len(root.tasks) :
       last.pre.tasks[k].start = None /\ root.tasks[k].start # None}

Started == {k \in 1..Len(root.tasks) : root.tasks[k].start # None}

\* C20: in a Sequence of n >= 1 Waits built fresh, the start of Wait k + 1 is
\* captured only in a tick in which Wait k returns Success, so it is no earlier
\* than the start of Wait k plus its duration; a tick captures the start of at
\* most one Wait; and the Sequence does not return Success before its tick
\* n + 1, whatever the durations.
C20_WaitsInTurn ==
    LET n == Len(root.tasks)
    IN  /\ \A k \in 1..(n - 1) :
             root.tasks[k + 1].start # None =>
               /\ root.tasks[k].start # None
               /\ root.tasks[k + 1].start[1] >=
                    root.tasks[k].start[1] + root.tasks[k].duration
        /\ Cardinality(Started) <= invocations[<<>>]
        /\ Ticked =>
             /\ Cardinality(StartedNow) <= 1
             /\ \A k \in 1..(n - 1) :
                  (k + 1) \in StartedNow =>
                    \E j \in 1..Len(last.calls) :
                      /\ last.calls[j].path = <<k>>
                      /\ last.calls[j].status = Success
             /\ last.status = Some(Success) => invocations[<<>>] >= n + 1

\* Two Waits of no duration: the Sequence returns Success on its third tick,
\* with the clock where it was at the first.
C20_Witness ==
    /\ Ticked
    /\ Len(root.tasks) = 2
    /\ \A k \in 1..2 : root.tasks[k].duration = 0 /\ root.tasks[k].start = Some(0)
    /\ now = 0
    /\ invocations[<<>>] = 3
    /\ last.status = Some(Success)

----------------------------------------------------------------------------
\* Progress.

ReturnedTerminal == Ticked /\ last.status[1] \in Terminal

\* C19: a tree of boxed Selectors and Sequences, Once, Wait, AlwaysSuccess and
\* AlwaysFailure whose root is ticked again and again while the clock advances
\* without bound eventually returns Success or Failure, and every tick of the
\* root from then on returns that same Status.
C19_Progress ==
    /\ <>[]ReturnedTerminal
    /\ [][ReturnedTerminal => last'.status = last.status]_vars

\* A Sequence of two Waits of the longest duration has returned Success, each
\* Wait having started when the one before it was over.
C19_Witness ==
    /\ ReturnedTerminal
    /\ root.kind = "boxed::Sequence"
    /\ Len(root.tasks) = 2
    /\ \A k \in 1..2 : /\ root.tasks[k].kind = "Wait"
                       /\ root.tasks[k].duration = MaxDuration
    /\ last.status = Some(Success)

============================================================================
